---------------------------- MODULE Spec2Model ----------------------------
(***************************************************************************)
(* A model of the weave orchestration engine:                              *)
(*   - weave.core.graph.DependencyGraph  (build, validate, order)          *)
(*   - weave.state.manager.StateManager  (lock file, liveness probe)       *)
(*   - weave.runtime.executor.Executor   (execute_flow, retries, hooks)    *)
(*                                                                         *)
(* Agent names are the integers 1..n in declaration order (the order of    *)
(* weave.agents); 0 stands for Python's None.                              *)
(***************************************************************************)
EXTENDS Integers, Sequences, FiniteSets, TLC

\* ------------------------------------------------------------------------
\* Bounds of the model
\* ------------------------------------------------------------------------
MaxGraphAgents == 3
NumProcs == 3          \* processes that call the StateManager
MaxRunIds == 2         \* run ids handed to create_lock
MaxAgents == 3         \* agents of the weave handed to execute_flow
MaxRetries == 2        \* largest runtime.max_retries configured
MaxRetryDelay == 2     \* largest runtime.retry_delay configured (seconds)
MaxHooks == 2          \* hooks registered on the Executor
MaxMessages == 12      \* longest conversation session
MaxSystem == 2         \* system messages in a session
MaxContentLen == 8     \* characters of the longest message content
MaxKeep == 2           \* largest small max_messages configured
MaxWindow == 6         \* the small context_window configured (tokens)
MaxSummarizeAfter == 5 \* the summarize_after configured
MaxNotes == 2          \* distinct note contents
MaxHistory == 2        \* notes saved for one agent between two clears

None == 0

VARIABLES
    gN,          \* number of agents of the weave handed to DependencyGraph
    gInputs,     \* gInputs[a]: Agent.inputs of agent a (None, an agent of the weave, or gN+1: an agent outside it)
    gKnown,      \* whether the weave name given to build() is in config.weaves
    graph,       \* DependencyGraph.graph: [nodes: insertion-ordered sequence, succ: node -> ordered successors]
    gRes         \* outcome of the last DependencyGraph call

graphVars == <<gN, gInputs, gKnown, graph, gRes>>

VARIABLES
    lockFile,    \* content of StateManager.lock_file: NoFile, Garbage, or a LockFile record
    alive,       \* the processes that exist
    lpc,         \* lpc[p]: where process p stands in create_lock ("idle", "open", "dump")
    lrun,        \* lrun[p]: the run_id argument of p's create_lock call in progress
    holder,      \* the record written by the last create_lock that returned, until release_lock is called
    lRes         \* outcome of the last StateManager call or step

lockVars == <<lockFile, alive, lpc, lrun, holder, lRes>>

VARIABLES
    cfgN,            \* number of agents of the weave (config.weaves[weave_name].agents)
    cfgInputs,       \* cfgInputs[a]: Agent.inputs
    cfgOutputs,      \* cfgOutputs[a]: Agent.outputs (None, or a key)
    cfgMaxRetries,   \* config.runtime.max_retries
    cfgRetryDelay,   \* config.runtime.retry_delay
    cfgStopOnError,  \* config.runtime.stop_on_error
    cfgSaveOutputs,  \* the agents of the weave have a storage section with save_outputs set
    hasStateManager, \* Executor.state_manager is not None
    callsPlanned,    \* how many times the caller calls execute_flow on the Executor
    runLog,          \* the run id each execute_flow call so far has run under
    stateFile,       \* StateManager.state_file: run id -> ExecutionState record, or NoState
    stored,          \* the agents whose output Storage.save_agent_output has written for this run
    cfgStorageFails, \* the storage cannot be written: every Storage.save_agent_output call raises
    saveRaised,      \* the agents of this call whose Storage.save_agent_output call raised
    hooks,           \* Executor.hooks, in registration order; "raises" marks a hook whose methods raise
    pc,              \* position in execute_flow: "idle", "attempt", "runner", "finish", "done", "raised"
    dryRun,          \* the dry_run argument
    order,           \* execution_order
    idx,             \* index in order of the agent of the current loop iteration
    attempt,         \* attempt of _execute_agent_with_retry
    outputs,         \* Executor.outputs: key -> AgentOutput
    successful,      \* local counter of execute_flow
    failed,          \* local counter of execute_flow
    ctx,             \* the context handed to llm_executor.execute_agent by the call in progress
    runnerLog,       \* outcomes of the Agent Runner calls made for the current agent
    hookLog,         \* hook methods invoked for the current agent
    slept,           \* the asyncio.sleep delays waited for the current agent
    fin,             \* the last agent the loop finished with: its output and what it took
    final,           \* final[a]: how the loop finished with agent a ("none", "success", "failed")
    eRes             \* what execute_flow returned or raised

engineOwnVars == <<cfgN, cfgInputs, cfgOutputs, cfgMaxRetries, cfgRetryDelay, cfgStopOnError,
                 cfgSaveOutputs, cfgStorageFails, hasStateManager, callsPlanned, runLog, stored,
                 saveRaised, hooks, pc,
                 dryRun, order, idx,
                 attempt, outputs, successful, failed, ctx, runnerLog, hookLog, slept, fin, final, eRes>>

engineVars == <<engineOwnVars, stateFile>>

VARIABLES
    spc,         \* spc[p]: where process p stands in save_state ("idle", "open", "dump")
    supd,        \* supd[p]: the dictionary of states p loaded, with its own state put in
    saved,       \* the run ids a save_state call has returned for
    sRes         \* outcome of the last save_state or load_state call

stateVars == <<spc, supd, saved, sRes>>

VARIABLES
    stm,         \* the ShortTermMemory instance: strategy, max_messages, context_window, summarize_after, summary_message
    session,     \* ConversationSession.messages
    contentLen,  \* the length of the content of the messages of the session
    recompacted, \* whether the instance has made a summary while it had one
    mRes         \* outcome of the last apply_strategy call on the session

shortVars == <<stm, session, contentLen, recompacted, mRes>>

VARIABLES
    memoryDir,   \* LongTermMemory.memory_dir: agent -> its memory file
    history,     \* history[a]: the contents saved for agent a since its memories were last cleared
    cleared,     \* the agents whose memories have been cleared
    ltRes        \* outcome of the last LongTermMemory call

longVars == <<memoryDir, history, cleared, ltRes>>

memVars == <<shortVars, longVars>>

vars == <<graphVars, lockVars, engineVars, stateVars, memVars>>

notGraphVars == <<lockVars, engineVars, stateVars, memVars>>
notLockVars == <<graphVars, engineVars, stateVars, memVars>>
notEngineVars == <<graphVars, lpc, lrun, holder, lRes, alive, stateVars, memVars>>
notStateVars == <<graphVars, lockVars, engineOwnVars, memVars>>
notShortVars == <<graphVars, lockVars, engineVars, stateVars, longVars>>
notLongVars == <<graphVars, lockVars, engineVars, stateVars, shortVars>>

\* ------------------------------------------------------------------------
\* Sequence helpers
\* ------------------------------------------------------------------------
Range(s) == {s[i] : i \in 1..Len(s)}

RECURSIVE Filter(_, _)
\* The members of the set keep, in the order they have in s.
Filter(s, keep) ==
    IF s = <<>> THEN <<>>
    ELSE IF Head(s) \in keep THEN <<Head(s)>> \o Filter(Tail(s), keep)
         ELSE Filter(Tail(s), keep)

Iota(n) == [i \in 1..n |-> i]

IndexOf(s, x) == IF x \in Range(s) THEN CHOOSE i \in 1..Len(s) : s[i] = x ELSE 0

\* ------------------------------------------------------------------------
\* networkx.DiGraph as used by DependencyGraph
\* ------------------------------------------------------------------------
EmptyGraph == [nodes |-> <<>>, succ |-> <<>>]

Edges(G) == {<<u, v>> \in Range(G.nodes) \X Range(G.nodes) : v \in Range(G.succ[u])}

in_degree(G, v) == Cardinality({u \in Range(G.nodes) : v \in Range(G.succ[u])})

\* DependencyGraph.build: nodes are added for every agent of the weave, then
\* the agents are visited in declaration order and the edge inputs -> agent is
\* added for each; the first input outside the weave raises GraphError and
\* leaves the edges added so far.
FirstOutside(n, inputs) ==
    IF \E a \in 1..n : inputs[a] > n
    THEN CHOOSE a \in 1..n : inputs[a] > n /\ \A b \in 1..(a - 1) : inputs[b] <= n
    ELSE n + 1

\* build() that skips an input outside the weave instead of raising
build_skips_foreign_inputs(n, inputs, known) ==
    IF ~known
    THEN [graph |-> EmptyGraph, raised |-> "GraphError"]
    ELSE [graph |-> [nodes |-> Iota(n),
                     succ  |-> [u \in 1..n |-> Filter(Iota(n), {v \in 1..n : inputs[v] = u})]],
          raised |-> "none"]

build(n, inputs, known) ==
    IF ~known
    THEN [graph |-> EmptyGraph, raised |-> "GraphError"]
    ELSE LET bad == FirstOutside(n, inputs)
             G == [nodes |-> Iota(n),
                   succ  |-> [u \in 1..n |->
                                Filter(Iota(n), {v \in 1..(bad - 1) : inputs[v] = u})]]
         IN [graph |-> G, raised |-> IF bad <= n THEN "GraphError" ELSE "none"]

\* networkx.topological_generations / topological_sort: the nodes of in-degree
\* zero form the first generation (in node order); each generation's nodes are
\* visited in order and each successor whose remaining in-degree drops to zero
\* is appended to the next generation.
RECURSIVE VisitChildren(_, _, _)
VisitChildren(children, indeg, zero) ==
    IF children = <<>> THEN [indeg |-> indeg, zero |-> zero]
    ELSE LET c == Head(children)
             d == indeg[c] - 1
         IN VisitChildren(Tail(children),
                          [indeg EXCEPT ![c] = d],
                          IF d = 0 THEN Append(zero, c) ELSE zero)

RECURSIVE VisitGeneration(_, _, _, _)
VisitGeneration(G, gen, indeg, zero) ==
    IF gen = <<>> THEN [indeg |-> indeg, zero |-> zero]
    ELSE LET r == VisitChildren(G.succ[Head(gen)], indeg, zero)
         IN VisitGeneration(G, Tail(gen), r.indeg, r.zero)

RECURSIVE Generations(_, _, _, _)
Generations(G, zero, indeg, out) ==
    IF zero = <<>>
    THEN [order |-> out, feasible |-> \A v \in Range(G.nodes) : indeg[v] = 0]
    ELSE LET r == VisitGeneration(G, zero, indeg, <<>>)
         IN Generations(G, r.zero, r.indeg, out \o zero)

topological_sort_declaration_order(G) ==
    [order |-> G.nodes, feasible |-> TRUE]

topological_sort(G) ==
    LET indeg == [v \in Range(G.nodes) |-> in_degree(G, v)]
        zero  == Filter(G.nodes, {v \in Range(G.nodes) : indeg[v] = 0})
    IN Generations(G, zero, indeg, <<>>)

\* DependencyGraph.get_execution_order: list(nx.topological_sort(graph)).  On a
\* cyclic graph networkx raises NetworkXUnfeasible, which is not a
\* NetworkXError, so the except clause does not turn it into GraphError.
get_execution_order(G) ==
    LET t == topological_sort(G)
    IN IF t.feasible THEN [raised |-> "none", order |-> t.order]
       ELSE [raised |-> "NetworkXUnfeasible", order |-> <<>>]

\* networkx.is_directed_acyclic_graph: the topological sort runs to the end.
is_directed_acyclic_graph(G) == topological_sort(G).feasible

\* networkx.simple_cycles: every elementary cycle, as a sequence of distinct
\* nodes each followed by its successor, the last followed by the first.
IsSimpleCycle(G, c) ==
    /\ Len(c) >= 1
    /\ \A i, j \in 1..Len(c) : i # j => c[i] # c[j]
    /\ \A i \in 1..Len(c) : <<c[i], c[(i % Len(c)) + 1]>> \in Edges(G)

simple_cycles(G) ==
    {c \in UNION {[1..k -> Range(G.nodes)] : k \in 1..Len(G.nodes)} : IsSimpleCycle(G, c)}

\* DependencyGraph.validate: the outcomes the call can have.  cycles[0] is the
\* first cycle networkx yields; which one, and from which node it starts, is
\* a matter of networkx's traversal, so every simple cycle is a possible report.
validate_reports_all_nodes(G) ==
    IF ~is_directed_acyclic_graph(G)
    THEN {[raised |-> "GraphError", why |-> "cycle", cycle |-> G.nodes]}
    ELSE IF Len(G.nodes) = 0
         THEN {[raised |-> "GraphError", why |-> "empty", cycle |-> <<>>]}
         ELSE {[raised |-> "none", why |-> "none", cycle |-> <<>>]}

validate(G) ==
    IF ~is_directed_acyclic_graph(G)
    THEN IF simple_cycles(G) = {}
         THEN {[raised |-> "IndexError", why |-> "none", cycle |-> <<>>]}
         ELSE {[raised |-> "GraphError", why |-> "cycle", cycle |-> c] : c \in simple_cycles(G)}
    ELSE IF Len(G.nodes) = 0
         THEN {[raised |-> "GraphError", why |-> "empty", cycle |-> <<>>]}
         ELSE {[raised |-> "none", why |-> "none", cycle |-> <<>>]}

\* ------------------------------------------------------------------------
\* DependencyGraph as a state machine
\* ------------------------------------------------------------------------
NoRes == [op |-> "none"]

InitGraph ==
    /\ gN \in 1..MaxGraphAgents
    /\ gInputs \in [1..gN -> 0..(gN + 1)]
    /\ gKnown \in BOOLEAN
    /\ graph = EmptyGraph
    /\ gRes = NoRes

\* DependencyGraph not in use
InitGraphIdle ==
    /\ gN = 1
    /\ gInputs = [a \in 1..1 |-> None]
    /\ gKnown = TRUE
    /\ graph = EmptyGraph
    /\ gRes = NoRes

Build ==
    LET b == build(gN, gInputs, gKnown)
    IN /\ graph' = b.graph
       /\ gRes' = [op |-> "build", raised |-> b.raised]
       /\ UNCHANGED <<gN, gInputs, gKnown>>
       /\ UNCHANGED notGraphVars

Validate ==
    /\ \E r \in validate(graph) :
          gRes' = [op |-> "validate", raised |-> r.raised, why |-> r.why, cycle |-> r.cycle]
    /\ UNCHANGED <<gN, gInputs, gKnown, graph>>
    /\ UNCHANGED notGraphVars

GetExecutionOrder ==
    LET r == get_execution_order(graph)
    IN /\ gRes' = [op |-> "order", raised |-> r.raised, order |-> r.order]
       /\ UNCHANGED <<gN, gInputs, gKnown, graph>>
       /\ UNCHANGED notGraphVars
    /\ UNCHANGED notGraphVars

NextGraph ==
    \/ Build
    \/ Validate
    \/ GetExecutionOrder



\* ------------------------------------------------------------------------
\* StateManager: the lock file
\* ------------------------------------------------------------------------
\* The processes sharing the lock file.  They run on host 1 under their own
\* pids as user 1, except process 2, which runs as user 2, and process 3,
\* which runs on host 2 (the directory is mounted there) and has pid 1 there.
Procs == 1..NumProcs
HostOf(p) == IF p = 3 THEN 2 ELSE 1            \* socket.gethostname()
PidOf(p)  == IF p = 3 THEN 1 ELSE p            \* os.getpid()
UserOf(p) == IF p = 2 THEN 2 ELSE 1            \* os.getenv("USER")

NoFile  == [kind |-> "nofile"]
Garbage == [kind |-> "garbage"]      \* the file exists but json.load fails on it
LockFile(run, p) ==
    [kind |-> "lock", run_id |-> run, pid |-> PidOf(p), hostname |-> HostOf(p),
     locked_by |-> UserOf(p)]

\* os.kill(pid, 0) issued by process caller: it looks pid up among the
\* processes of the caller's own host.
os_kill(caller, pid, living) ==
    LET target == {q \in living : HostOf(q) = HostOf(caller) /\ PidOf(q) = pid}
    IN IF target = {} THEN "ProcessLookupError"
       ELSE IF \E q \in target : UserOf(q) # UserOf(caller) THEN "PermissionError"
       ELSE "ok"

\* StateManager.read_lock: the record, or None
read_lock(file) == IF file.kind = "lock" THEN file ELSE NoFile

\* StateManager.release_lock
\* release_lock() that reports the lock and leaves the file
release_lock_keeps_file(file) ==
    [ret |-> file.kind # "nofile", file |-> file]

release_lock(file) ==
    IF file.kind # "nofile" THEN [ret |-> TRUE, file |-> NoFile]
    ELSE [ret |-> FALSE, file |-> file]

\* is_locked() that takes an unreadable file for a stale lock
is_locked_clears_unreadable(caller, file, living) ==
    IF file.kind = "nofile" THEN [ret |-> FALSE, file |-> file]
    ELSE LET lock == read_lock(file)
         IN IF lock.kind = "lock" /\ os_kill(caller, lock.pid, living) = "ok"
            THEN [ret |-> TRUE, file |-> file]
            ELSE [ret |-> FALSE, file |-> release_lock(file).file]

\* StateManager.is_locked, called by process caller
is_locked(caller, file, living) ==
    IF file.kind = "nofile" THEN [ret |-> FALSE, file |-> file]
    ELSE LET lock == read_lock(file)
         IN IF lock.kind = "lock"
            THEN IF os_kill(caller, lock.pid, living) = "ok"
                 THEN [ret |-> TRUE, file |-> file]
                 ELSE [ret |-> FALSE, file |-> release_lock(file).file]
            ELSE [ret |-> TRUE, file |-> file]

\* The process that wrote a lock record.
OwnerOf(lock) == CHOOSE p \in Procs : PidOf(p) = lock.pid /\ HostOf(p) = lock.hostname

NoHolder == [kind |-> "nofile"]

InitLock ==
    /\ lockFile = NoFile
    /\ alive = Procs
    /\ lpc = [p \in Procs |-> "idle"]
    /\ lrun = [p \in Procs |-> 0]
    /\ holder = NoHolder
    /\ lRes = NoRes

\* create_lock, lines 172-175: the is_locked() test
CreateLockCheck(p, run) ==
    /\ p \in alive /\ lpc[p] = "idle"
    /\ LET r == is_locked(p, lockFile, alive)
       IN /\ lockFile' = r.file
          /\ lRes' = [op |-> "create_lock", step |-> "check",
                      raised |-> IF r.ret THEN "RuntimeError" ELSE "none",
                      before |-> lockFile, after |-> r.file,
                      holderAlive |-> (holder.kind = "lock" /\ OwnerOf(holder) \in alive),
                      ownerAlive |-> (lockFile.kind = "lock" /\ OwnerOf(lockFile) \in alive)]
          /\ lpc' = [lpc EXCEPT ![p] = IF r.ret THEN "idle" ELSE "open"]
          /\ lrun' = [lrun EXCEPT ![p] = IF r.ret THEN 0 ELSE run]
    /\ UNCHANGED <<alive, holder>>
    /\ UNCHANGED notLockVars

\* create_lock, line 190: open(lock_file, "w") creates or truncates the file
CreateLockOpen(p) ==
    /\ p \in alive /\ lpc[p] = "open"
    /\ lockFile' = Garbage
    /\ lpc' = [lpc EXCEPT ![p] = "dump"]
    /\ lRes' = [op |-> "create_lock", step |-> "open"]
    /\ UNCHANGED <<alive, lrun, holder>>
    /\ UNCHANGED notLockVars

\* create_lock, lines 191-193: json.dump writes the record; the call returns
CreateLockDump(p) ==
    /\ p \in alive /\ lpc[p] = "dump"
    /\ lockFile' = LockFile(lrun[p], p)
    /\ holder' = LockFile(lrun[p], p)
    /\ lpc' = [lpc EXCEPT ![p] = "idle"]
    /\ lrun' = [lrun EXCEPT ![p] = 0]
    /\ lRes' = [op |-> "create_lock", step |-> "return", raised |-> "none"]
    /\ UNCHANGED alive
    /\ UNCHANGED notLockVars

ReleaseLock(p) ==
    /\ p \in alive /\ lpc[p] = "idle"
    /\ LET r == release_lock(lockFile)
       IN /\ lockFile' = r.file
          /\ lRes' = [op |-> "release_lock", ret |-> r.ret,
                      before |-> lockFile, after |-> r.file]
    /\ holder' = NoHolder
    /\ UNCHANGED <<alive, lpc, lrun>>
    /\ UNCHANGED notLockVars

IsLocked(p) ==
    /\ p \in alive /\ lpc[p] = "idle"
    /\ LET r == is_locked(p, lockFile, alive)
       IN /\ lockFile' = r.file
          /\ lRes' = [op |-> "is_locked", ret |-> r.ret,
                      before |-> lockFile, after |-> r.file,
                      ownerAlive |-> (lockFile.kind = "lock" /\ OwnerOf(lockFile) \in alive)]
    /\ UNCHANGED <<alive, lpc, lrun, holder>>
    /\ UNCHANGED notLockVars

ReadLock(p) ==
    /\ p \in alive /\ lpc[p] = "idle"
    /\ lRes' = [op |-> "read_lock", ret |-> read_lock(lockFile)]
    /\ UNCHANGED <<lockFile, alive, lpc, lrun, holder>>
    /\ UNCHANGED notLockVars

\* The process is killed, wherever it stands.
Kill(p) ==
    /\ p \in alive
    /\ alive' = alive \ {p}
    /\ lpc' = [lpc EXCEPT ![p] = "idle"]
    /\ lrun' = [lrun EXCEPT ![p] = 0]
    /\ lRes' = [op |-> "kill"]
    /\ UNCHANGED <<lockFile, holder>>
    /\ UNCHANGED notLockVars

NextLock ==
    \/ \E p \in Procs, run \in 1..MaxRunIds : CreateLockCheck(p, run)
    \/ \E p \in Procs : CreateLockOpen(p)
    \/ \E p \in Procs : CreateLockDump(p)
    \/ \E p \in Procs : ReleaseLock(p)
    \/ \E p \in Procs : IsLocked(p)
    \/ \E p \in Procs : ReadLock(p)
    \/ \E p \in Procs : Kill(p)


\* ------------------------------------------------------------------------
\* StateManager: the state file
\* ------------------------------------------------------------------------
\* The state file without a record of any run: load_state returns None.
NoState == [status |-> "none"]
NoStateFile == [r \in 1..MaxRunIds |-> NoState]

\* The processes that save states; process p saves the state of run p.
Savers == {p \in Procs : p <= 2}

\* The ExecutionState values handed to save_state for a run: running or
\* completed with metadata of plain YAML values (strings, numbers, lists,
\* dictionaries), and running with a metadata value of another Python type
\* (a tuple, a set, an object), which metadata: Dict[str, Any] admits.
ExecutionStates(run) ==
    { [run_id |-> run, status |-> "running", metadata |-> "plain"],
      [run_id |-> run, status |-> "completed", metadata |-> "plain"],
      [run_id |-> run, status |-> "running", metadata |-> "python"] }

\* yaml.dump(states): the default Dumper writes a value that is no plain YAML
\* value under a !!python/... tag.
yaml_dump(states) ==
    [r \in 1..MaxRunIds |->
        IF states[r] = NoState THEN NoState
        ELSE [node |-> [run_id |-> states[r].run_id, status |-> states[r].status],
              metadata |-> IF states[r].metadata = "python" THEN "!!python" ELSE "plain"]]

\* yaml.safe_load(f) or {}: the safe loader has no constructor for a
\* !!python/... tag and raises ConstructorError on a document that holds one.
safe_load(file) ==
    IF \E r \in 1..MaxRunIds : file[r] # NoState /\ file[r].metadata = "!!python"
    THEN [raised |-> "ConstructorError", states |-> NoStateFile]
    ELSE [raised |-> "none",
          states |-> [r \in 1..MaxRunIds |->
                        IF file[r] = NoState THEN NoState
                        ELSE [run_id |-> file[r].node.run_id, status |-> file[r].node.status,
                              metadata |-> file[r].metadata]]]

\* StateManager.load_all_states: {} when the file does not exist or is empty
load_all_states(file) == safe_load(file)

\* StateManager.load_state: ExecutionState(**states[run_id]), or None
load_state(file, run) ==
    LET l == load_all_states(file)
    IN [raised |-> l.raised, ret |-> IF l.raised = "none" THEN l.states[run] ELSE NoState]

\* save_state that writes the one state and drops the states it loaded
save_state_writes_one(file, state) ==
    [raised |-> "none", file |-> yaml_dump([NoStateFile EXCEPT ![state.run_id] = state])]

\* StateManager.save_state run without interruption: load all states, put
\* the state under its run id, write the whole dictionary.
save_state(file, state) ==
    LET l == load_all_states(file)
    IN IF l.raised # "none" THEN [raised |-> l.raised, file |-> file]
       ELSE [raised |-> "none", file |-> yaml_dump([l.states EXCEPT ![state.run_id] = state])]

InitState ==
    /\ spc = [p \in Procs |-> "idle"]
    /\ supd = [p \in Procs |-> NoStateFile]
    /\ saved = {}
    /\ sRes = NoRes

\* save_state, lines 92-95: the states are loaded and the state is put in
SaveStateLoad(p, state) ==
    /\ p \in Savers /\ spc[p] = "idle"
    /\ LET l == load_all_states(stateFile)
       IN IF l.raised # "none"
          THEN /\ sRes' = [op |-> "save_state", step |-> "load", raised |-> l.raised]
               /\ UNCHANGED <<spc, supd>>
          ELSE /\ sRes' = [op |-> "save_state", step |-> "load", raised |-> "none"]
               /\ spc' = [spc EXCEPT ![p] = "open"]
               /\ supd' = [supd EXCEPT ![p] = [l.states EXCEPT ![state.run_id] = state]]
    /\ UNCHANGED <<stateFile, saved>>
    /\ UNCHANGED notStateVars

\* save_state, line 98: open(state_file, "w") truncates the file
SaveStateOpen(p) ==
    /\ spc[p] = "open"
    /\ stateFile' = NoStateFile
    /\ spc' = [spc EXCEPT ![p] = "dump"]
    /\ sRes' = [op |-> "save_state", step |-> "open", raised |-> "none"]
    /\ UNCHANGED <<supd, saved>>
    /\ UNCHANGED notStateVars

\* save_state, line 99: yaml.dump writes the dictionary; the call returns
SaveStateDump(p) ==
    /\ spc[p] = "dump"
    /\ stateFile' = yaml_dump(supd[p])
    /\ saved' = saved \cup {p}
    /\ spc' = [spc EXCEPT ![p] = "idle"]
    /\ supd' = [supd EXCEPT ![p] = NoStateFile]
    /\ sRes' = [op |-> "save_state", step |-> "return", raised |-> "none", state |-> supd[p][p]]
    /\ UNCHANGED notStateVars

\* load_state(run_id), called by any process
LoadState(run) ==
    /\ LET l == load_state(stateFile, run)
       IN sRes' = [op |-> "load_state", run |-> run, raised |-> l.raised, ret |-> l.ret,
                   everSaved |-> run \in saved]
    /\ UNCHANGED <<stateFile, spc, supd, saved>>
    /\ UNCHANGED notStateVars

NextState ==
    \/ \E p \in Savers : \E state \in ExecutionStates(p) : SaveStateLoad(p, state)
    \/ \E p \in Savers : SaveStateOpen(p)
    \/ \E p \in Savers : SaveStateDump(p)
    \/ \E run \in 1..MaxRunIds : LoadState(run)

\* ------------------------------------------------------------------------
\* Executor
\* ------------------------------------------------------------------------
EngineProc == 1      \* the process that runs the Executor
EngineRunId == 1     \* Executor.run_id

NoOutput == [status |-> "none"]

\* AgentOutput(agent_name, output_key, data, status).  The data of a success
\* is the runner's response, that of a failure {"error": str(e)}; both are
\* tagged with the agent whose runner call produced them.  The dry-run data
\* is the same canned dictionary for every agent.
AgentOutput(a, key, kind, status) ==
    [agent_name |-> a, output_key |-> key, status |-> status,
     data |-> [kind |-> kind, of |-> IF kind = "dry-run" THEN None ELSE a]]

\* agent.outputs or agent_name
OutputKey(a) == IF cfgOutputs[a] # None THEN cfgOutputs[a] ELSE a

\* _execute_agent, lines 447-450: the context built for the runner
BuildContext(a) ==
    IF cfgInputs[a] # None /\ outputs[cfgInputs[a]].status # "none"
    THEN [key |-> cfgInputs[a], data |-> outputs[cfgInputs[a]].data]
    ELSE [key |-> None]

NoCtx == [key |-> None]
NoFin == [agent |-> None]

\* A hook loop that the first exception of a hook ends
CallHooksStopAtRaise(phase, a) ==
    LET raising == {i \in 1..Len(hooks) : hooks[i] = "raises"}
        last == IF raising = {} THEN Len(hooks)
                ELSE CHOOSE i \in raising : \A j \in raising : i <= j
    IN [i \in 1..last |-> [phase |-> phase, hook |-> i, agent |-> a]]

\* A hook loop that runs from the hook registered last to the first
CallHooksReversed(phase, a) ==
    [i \in 1..Len(hooks) |-> [phase |-> phase, hook |-> Len(hooks) + 1 - i, agent |-> a]]

\* _call_before_hooks / _call_after_hooks: every hook is invoked in
\* registration order; an exception of a hook is caught and the loop goes on.
CallHooks(phase, a) == [i \in 1..Len(hooks) |-> [phase |-> phase, hook |-> i, agent |-> a]]

\* The weaves execute_flow is run on: agents without inputs, a chain declared
\* in dependency order, a chain declared against it, and the fan-outs from the
\* first and from the last agent declared.
WeaveShapes(n) ==
    { [a \in 1..n |-> None],
      [a \in 1..n |-> a - 1],
      [a \in 1..n |-> IF a < n THEN a + 1 ELSE None],
      [a \in 1..n |-> IF a > 1 THEN 1 ELSE None],
      [a \in 1..n |-> IF a < n THEN n ELSE None] }

\* At most one agent declares an outputs key: the name of the agent declared
\* after it (of the first, for the last), or n + 1, a key that names no agent.
OutputKeys(n) ==
    {f \in [1..n -> 0..(n + 1)] :
        /\ Cardinality({a \in 1..n : f[a] # None}) <= 1
        /\ \A a \in 1..n : f[a] \in {None, n + 1, (a % n) + 1} \ {a}}

\* execute_flow, lines 328-333: the output of an agent is handed to
\* Storage.save_agent_output in a real run when the agent has a storage
\* section with save_outputs set.
SavesOutputInDryRun(a) == cfgSaveOutputs

SavesOutput(a) == ~dryRun /\ cfgSaveOutputs

InitEngine ==
    /\ cfgN \in 1..MaxAgents
    /\ cfgInputs \in WeaveShapes(cfgN)
    /\ cfgOutputs \in OutputKeys(cfgN)
    /\ cfgMaxRetries \in 0..MaxRetries
    /\ cfgRetryDelay \in {1, MaxRetryDelay}
    /\ cfgStopOnError \in BOOLEAN
    /\ cfgSaveOutputs \in BOOLEAN
    /\ cfgStorageFails \in BOOLEAN
    /\ hasStateManager \in BOOLEAN
    /\ callsPlanned \in 1..2
    /\ runLog = <<>>
    /\ stateFile = NoStateFile
    /\ stored = {}
    /\ saveRaised = {}
    /\ hooks = <<>>
    /\ pc = "idle"
    /\ dryRun = FALSE
    /\ order = <<>>
    /\ idx = 0
    /\ attempt = 0
    /\ outputs = [k \in 1..(cfgN + 1) |-> NoOutput]
    /\ successful = 0
    /\ failed = 0
    /\ ctx = NoCtx
    /\ runnerLog = <<>>
    /\ hookLog = <<>>
    /\ slept = <<>>
    /\ fin = NoFin
    /\ final = [a \in 1..cfgN |-> "none"]
    /\ eRes = NoRes

\* Executor not in use
InitEngineIdle ==
    /\ cfgN = 1
    /\ cfgInputs = [a \in 1..1 |-> None]
    /\ cfgOutputs = [a \in 1..1 |-> None]
    /\ cfgMaxRetries = 0
    /\ cfgRetryDelay = 1
    /\ cfgStopOnError = TRUE
    /\ cfgSaveOutputs = FALSE
    /\ cfgStorageFails = FALSE
    /\ hasStateManager = TRUE
    /\ callsPlanned = 1
    /\ runLog = <<>>
    /\ stateFile = NoStateFile
    /\ stored = {}
    /\ saveRaised = {}
    /\ hooks = <<>>
    /\ pc = "idle"
    /\ dryRun = FALSE
    /\ order = <<>>
    /\ idx = 0
    /\ attempt = 0
    /\ outputs = [k \in 1..2 |-> NoOutput]
    /\ successful = 0
    /\ failed = 0
    /\ ctx = NoCtx
    /\ runnerLog = <<>>
    /\ hookLog = <<>>
    /\ slept = <<>>
    /\ fin = NoFin
    /\ final = [a \in 1..1 |-> "none"]
    /\ eRes = NoRes

cfgVars == <<cfgN, cfgInputs, cfgOutputs, cfgMaxRetries, cfgRetryDelay, cfgStopOnError,
             cfgSaveOutputs, cfgStorageFails, hasStateManager, callsPlanned>>

\* The settings hooks are registered under: the defaults of RuntimeConfig,
\* agents without a storage section, no lock file, one execute_flow call.
DefaultSettings ==
    /\ cfgRetryDelay = 1 /\ cfgStopOnError
    /\ ~cfgSaveOutputs /\ ~cfgStorageFails
    /\ lockFile = NoFile /\ callsPlanned = 1

\* Executor.register_hook
RegisterHook(kind) ==
    /\ pc = "idle"
    /\ Len(hooks) < MaxHooks
    /\ DefaultSettings
    /\ hooks' = Append(hooks, kind)
    /\ UNCHANGED <<cfgVars, runLog, stateFile, stored, saveRaised, lockFile, pc, dryRun, order, idx, attempt, outputs,
                   successful, failed, ctx, runnerLog, hookLog, slept, fin, final, eRes>>
    /\ UNCHANGED notEngineVars

\* execute_flow, lines 274-297: the execution order is computed; a real run
\* with a state manager calls state_manager.create_execution_state, a method
\* StateManager does not have, and the AttributeError leaves execute_flow.
\* No lock is created.  The call runs under Executor.run_id, set by __init__
\* (line 81); a later call on the same Executor starts from the outputs the
\* earlier one left (Executor.outputs is set by __init__ alone, line 80).
StartFlow(dry) ==
    /\ pc = "idle" \/ (pc \in {"done", "raised"} /\ Len(runLog) < callsPlanned)
    /\ dryRun' = dry
    /\ runLog' = Append(runLog, EngineRunId)
    /\ LET o == get_execution_order(build(cfgN, cfgInputs, TRUE).graph)
       IN IF o.raised # "none"
          THEN /\ pc' = "raised"
               /\ eRes' = [op |-> "execute_flow", raised |-> o.raised]
               /\ order' = <<>>
               /\ idx' = 0
          ELSE IF hasStateManager /\ ~dry
          THEN /\ pc' = "raised"
               /\ eRes' = [op |-> "execute_flow", raised |-> "AttributeError"]
               /\ order' = o.order
               /\ idx' = 0
          ELSE /\ pc' = "attempt"
               /\ order' = o.order
               /\ idx' = 1
               /\ eRes' = NoRes
    /\ successful' = 0
    /\ failed' = 0
    /\ attempt' = 0
    /\ ctx' = NoCtx
    /\ runnerLog' = <<>>
    /\ hookLog' = <<>>
    /\ slept' = <<>>
    /\ fin' = NoFin
    /\ final' = [a \in 1..cfgN |-> "none"]
    /\ saveRaised' = {}
    /\ UNCHANGED <<cfgVars, stateFile, stored, lockFile, hooks, outputs>>
    /\ UNCHANGED notEngineVars

\* The loop of execute_flow moves to the next agent of the order.
NextAgentPc == IF idx < Len(order) THEN "attempt" ELSE "finish"

\* One iteration of the loop in a dry run (lines 297-333 with _execute_agent,
\* lines 406-426): before hooks, the canned output, after hooks; the output is
\* stored in Executor.outputs and counted.  The state update (line 325) and
\* the storage save (line 328) are both guarded by "not dry_run".
DryAgent ==
    /\ pc = "attempt" /\ dryRun
    /\ LET a == order[idx]
           out == AgentOutput(a, OutputKey(a), "dry-run", "success")
       IN /\ outputs' = [outputs EXCEPT ![out.output_key] = out]
          /\ hookLog' = CallHooks("before", a) \o CallHooks("after", a)
          /\ fin' = [agent |-> a, output |-> out, calls |-> <<>>, retries |-> 0, slept |-> <<>>]
          /\ final' = [final EXCEPT ![a] = "success"]
          /\ stored' = IF SavesOutput(a) THEN stored \cup {a} ELSE stored
    /\ successful' = successful + 1
    /\ idx' = idx + 1
    /\ pc' = NextAgentPc
    /\ UNCHANGED <<cfgVars, runLog, stateFile, saveRaised, lockFile, hooks, dryRun, order, attempt,
                   failed, ctx, runnerLog, slept, eRes>>
    /\ UNCHANGED notEngineVars

\* _execute_agent in a real run up to the await of the runner (lines 406-461):
\* before hooks, the context from Executor.outputs, the call.
CallRunner ==
    /\ pc = "attempt" /\ ~dryRun
    /\ LET a == order[idx]
       IN /\ hookLog' = (IF attempt = 0 THEN <<>> ELSE hookLog) \o CallHooks("before", a)
          /\ ctx' = BuildContext(a)
    /\ runnerLog' = IF attempt = 0 THEN <<>> ELSE runnerLog
    /\ slept' = IF attempt = 0 THEN <<>> ELSE slept
    /\ pc' = "runner"
    /\ UNCHANGED <<cfgVars, runLog, stateFile, stored, saveRaised, lockFile, hooks, dryRun, order, idx, attempt, outputs,
                   successful, failed, fin, final, eRes>>
    /\ UNCHANGED notEngineVars

\* Storage.save_agent_output raises (an OSError of the backend's write)
SaveRaises(a) == SavesOutput(a) /\ cfgStorageFails

\* The runner returns (lines 463-495): the success output is built, the after
\* hooks run, execute_flow stores and counts the output (lines 310-317) and
\* saves it to the storage when the agent asks for it (lines 328-333).  The
\* state update of line 325 is not reached without a state manager.  When the
\* save raises, the except clause of the loop (lines 335-347) counts the
\* agent as failed as well and puts an error output in place of its output.
\* fin.output is what _execute_agent_with_retry returned.
RunnerReturns ==
    /\ pc = "runner"
    /\ LET a == order[idx]
           out == AgentOutput(a, OutputKey(a), "content", "success")
           err == AgentOutput(a, OutputKey(a), "error", "failed")
       IN /\ outputs' = [outputs EXCEPT ![out.output_key] = IF SaveRaises(a) THEN err ELSE out]
          /\ hookLog' = hookLog \o CallHooks("after", a)
          /\ runnerLog' = Append(runnerLog, "ok")
          /\ fin' = [agent |-> a, output |-> out, calls |-> Append(runnerLog, "ok"),
                     retries |-> attempt, slept |-> slept]
          /\ final' = [final EXCEPT ![a] = IF SaveRaises(a) THEN "failed" ELSE "success"]
          /\ stored' = IF SavesOutput(a) /\ ~SaveRaises(a) THEN stored \cup {a} ELSE stored
          /\ saveRaised' = IF SaveRaises(a) THEN saveRaised \cup {a} ELSE saveRaised
          /\ failed' = IF SaveRaises(a) THEN failed + 1 ELSE failed
    /\ successful' = successful + 1
    /\ idx' = idx + 1
    /\ attempt' = 0
    /\ ctx' = NoCtx
    /\ pc' = NextAgentPc
    /\ UNCHANGED <<cfgVars, runLog, stateFile, lockFile, hooks, dryRun, order, slept, eRes>>
    /\ UNCHANGED notEngineVars

\* _execute_agent_with_retry, lines 387 and 392: attempts run over
\* range(max_retries + 1); a failed attempt is retried while attempt < max_retries.
RetriesLeftOffByOne(att) == att <= cfgMaxRetries

RetriesLeft(att) == att < cfgMaxRetries

\* _execute_agent_with_retry, line 397: the delay of the backoff
BackoffDelay(att) == 1 * (2 ^ att)

\* The runner raises and attempts remain (lines 390-397): the backoff sleep,
\* then the next attempt.
RunnerRaisesRetry ==
    /\ pc = "runner"
    /\ RetriesLeft(attempt)
    /\ runnerLog' = Append(runnerLog, "raise")
    /\ slept' = Append(slept, BackoffDelay(attempt))
    /\ attempt' = attempt + 1
    /\ ctx' = NoCtx
    /\ pc' = "attempt"
    /\ UNCHANGED <<cfgVars, runLog, stateFile, stored, saveRaised, lockFile, hooks, dryRun, order, idx, outputs,
                   successful, failed, hookLog, fin, final, eRes>>
    /\ UNCHANGED notEngineVars

\* The runner raises on the last attempt (lines 399-400, 335-347): the error
\* leaves _execute_agent_with_retry, execute_flow counts the agent as failed
\* and stores the error output; the loop goes on.
RunnerRaisesFinal ==
    /\ pc = "runner"
    /\ ~RetriesLeft(attempt)
    /\ LET a == order[idx]
           out == AgentOutput(a, OutputKey(a), "error", "failed")
       IN /\ outputs' = [outputs EXCEPT ![out.output_key] = out]
          /\ runnerLog' = Append(runnerLog, "raise")
          /\ fin' = [agent |-> a, output |-> out, calls |-> Append(runnerLog, "raise"),
                     retries |-> attempt, slept |-> slept]
          /\ final' = [final EXCEPT ![a] = "failed"]
    /\ failed' = failed + 1
    /\ idx' = idx + 1
    /\ attempt' = 0
    /\ ctx' = NoCtx
    /\ pc' = NextAgentPc
    /\ UNCHANGED <<cfgVars, runLog, stateFile, stored, saveRaised, lockFile, hooks, dryRun, order, successful, hookLog,
                   slept, eRes>>
    /\ UNCHANGED notEngineVars

\* execute_flow, lines 349-375: the summary is returned.  The state is
\* finalized only with a state manager in a real run, which never gets here.
ReturnSummary ==
    /\ pc = "finish"
    /\ pc' = "done"
    /\ eRes' = [op |-> "execute_flow", raised |-> "none", total_agents |-> Len(order),
                successful |-> successful, failed |-> failed, outputs |-> outputs]
    /\ UNCHANGED <<cfgVars, runLog, stateFile, stored, saveRaised, lockFile, hooks, dryRun, order, idx, attempt, outputs,
                   successful, failed, ctx, runnerLog, hookLog, slept, fin, final>>
    /\ UNCHANGED notEngineVars

NextEngine ==
    \/ \E kind \in {"ok", "raises"} : RegisterHook(kind)
    \/ \E dry \in BOOLEAN : StartFlow(dry)
    \/ DryAgent
    \/ CallRunner
    \/ RunnerReturns
    \/ RunnerRaisesRetry
    \/ RunnerRaisesFinal
    \/ ReturnSummary

\* ------------------------------------------------------------------------
\* weave.core.memory: ShortTermMemory
\* ------------------------------------------------------------------------
TokenChars == 4          \* estimate_tokens: characters per token
MinCompactMessages == 5  \* _should_compact: shorter lists are never compacted
RecentKept == 10         \* _compact_messages: conversation messages kept verbatim
PreviewChars == 200      \* _compact_messages: characters of a message quoted in the summary
Unset == -1              \* summarize_after = None

\* A text is known by its length, and the text of a summary also by what
\* it quotes.
PlainText(n) == [kind |-> "plain", len |-> n, quotes |-> <<>>]

\* ConversationMessage(role, content); id is the position the message was
\* added to the session at (0: made by the memory).
ConversationMessage(role, id, text) == [role |-> role, id |-> id, text |-> text]

NoMessage == ConversationMessage("none", 0, PlainText(0))

estimate_tokens(text) == IF text.len = 0 THEN 0 ELSE text.len \div TokenChars

RECURSIVE count_message_tokens(_)
count_message_tokens(messages) ==
    IF messages = <<>> THEN 0
    ELSE estimate_tokens(Head(messages).text) + count_message_tokens(Tail(messages))

IsSystem(msg) == msg.role = "system"
NotSystem(msg) == msg.role # "system"

\* Python's seq[-k:]
SliceFromMinus(seq, k) ==
    IF k > 0 THEN SubSeq(seq, (IF Len(seq) > k THEN Len(seq) - k ELSE 0) + 1, Len(seq))
    ELSE IF k = 0 THEN seq
    ELSE SubSeq(seq, (IF Len(seq) > -k THEN -k ELSE Len(seq)) + 1, Len(seq))

\* Python's seq[:-k], k > 0
SliceToMinus(seq, k) == IF Len(seq) > k THEN SubSeq(seq, 1, Len(seq) - k) ELSE <<>>

\* Python's seq[::2]
EveryOther(seq) == [i \in 1..((Len(seq) + 1) \div 2) |-> seq[2 * i - 1]]

RECURSIVE SumLen(_)
SumLen(lines) == IF lines = <<>> THEN 0 ELSE Head(lines).chars + SumLen(Tail(lines))

\* The content of the summary: the heading, the sentence with the number of
\* old messages, and a line "- Role: preview" for every other old message,
\* joined by newlines.
SummaryText(old_messages) ==
    LET sampled == EveryOther(old_messages)
        preview(msg) == IF msg.text.len > PreviewChars THEN PreviewChars + 3 ELSE msg.text.len
        rolelen(msg) == IF msg.role = "system" THEN 6 ELSE 4
        lines == [i \in 1..Len(sampled) |->
                    [role |-> sampled[i].role, id |-> sampled[i].id,
                     chars |-> 2 + rolelen(sampled[i]) + 2 + preview(sampled[i])]]
        digits == IF Len(old_messages) < 10 THEN 1 ELSE 2
    IN [kind |-> "summary",
        len |-> 23 + (30 + digits + 19) + SumLen(lines) + (Len(lines) + 1),
        quotes |-> lines]

should_compact_any_length(self, messages) ==
    IF self.summary_message # NoMessage THEN FALSE
    ELSE IF count_message_tokens(messages) > self.context_window THEN TRUE
    ELSE IF self.summarize_after # Unset /\ self.summarize_after # 0
            /\ Len(messages) > self.summarize_after THEN TRUE
    ELSE FALSE

should_compact(self, messages) ==
    IF self.summary_message # NoMessage \/ Len(messages) < MinCompactMessages THEN FALSE
    ELSE IF count_message_tokens(messages) > self.context_window THEN TRUE
    ELSE IF self.summarize_after # Unset /\ self.summarize_after # 0
            /\ Len(messages) > self.summarize_after THEN TRUE
    ELSE FALSE

compact_messages_keeps_all(self, messages) ==
    [ret |-> messages, summary_message |-> self.summary_message]

\* Returns the compacted list and self.summary_message after the call.
compact_messages(self, messages) ==
    LET system_messages == SelectSeq(messages, IsSystem)
        conversation_messages == SelectSeq(messages, NotSystem)
        recent_messages == SliceFromMinus(conversation_messages, RecentKept)
        old_messages == SliceToMinus(conversation_messages, RecentKept)
        summary == ConversationMessage("system", 0, SummaryText(old_messages))
    IN IF Len(messages) <= RecentKept \/ old_messages = <<>>
       THEN [ret |-> messages, summary_message |-> self.summary_message]
       ELSE [ret |-> system_messages \o <<summary>> \o recent_messages,
             summary_message |-> summary]

apply_buffer(self, messages) ==
    IF Len(messages) <= self.max_messages THEN messages
    ELSE LET system_messages == SelectSeq(messages, IsSystem)
             other_messages == SelectSeq(messages, NotSystem)
         IN system_messages
               \o SliceFromMinus(other_messages, self.max_messages - Len(system_messages))

apply_sliding_window(self, messages) ==
    IF Len(messages) <= self.max_messages THEN messages
    ELSE SliceFromMinus(messages, self.max_messages)

\* Returns the filtered list, whether _compact_messages was called, its
\* result, and self.summary_message after the call.
apply_strategy(self, messages, auto_compact) ==
    LET triggered == auto_compact /\ should_compact(self, messages)
        c == IF triggered THEN compact_messages(self, messages)
             ELSE [ret |-> messages, summary_message |-> self.summary_message]
    IN [triggered |-> triggered,
        compacted |-> c.ret,
        summary_message |-> c.summary_message,
        ret |-> IF self.strategy \in {"buffer", "auto_compact"} THEN apply_buffer(self, c.ret)
                ELSE IF self.strategy = "sliding_window" THEN apply_sliding_window(self, c.ret)
                ELSE apply_buffer(self, c.ret)]

\* MemoryConfig.type: the strategies ShortTermMemory knows, and one it does not
Strategies == {"buffer", "sliding_window", "auto_compact", "summary"}

\* Larger than every count of messages and of tokens of a session, as the
\* defaults max_messages = 100 and context_window = 4000 are.
Large == MaxMessages * MaxContentLen + 1

\* The memory settings: every strategy with a small and with a large
\* max_messages and no compaction in reach, and the buffer strategy with a
\* large max_messages under each context_window and summarize_after.
ShortTermConfigs ==
    { [strategy |-> s, max_messages |-> m, context_window |-> Large, summarize_after |-> Unset] :
          s \in Strategies, m \in (0..MaxKeep) \cup {Large} }
    \cup
    { [strategy |-> "buffer", max_messages |-> Large, context_window |-> c, summarize_after |-> a] :
          c \in {0, MaxWindow, Large}, a \in {Unset, 0, MaxSummarizeAfter} }

ContentLens == {TokenChars - 1, TokenChars, MaxContentLen}

InitShort ==
    /\ \E c \in ShortTermConfigs :
          stm = [strategy |-> c.strategy, max_messages |-> c.max_messages,
                 context_window |-> c.context_window, summarize_after |-> c.summarize_after,
                 summary_message |-> NoMessage]
    /\ session = <<>>
    /\ contentLen \in ContentLens
    /\ recompacted = FALSE
    /\ mRes = NoRes

InitShortIdle ==
    /\ stm = [strategy |-> "buffer", max_messages |-> Large, context_window |-> Large,
              summarize_after |-> Unset, summary_message |-> NoMessage]
    /\ session = <<>>
    /\ contentLen = TokenChars
    /\ recompacted = FALSE
    /\ mRes = NoRes

\* ConversationSession.add_message(role, content)
AddMessage(role) ==
    /\ Len(session) < MaxMessages
    /\ role = "system" => Len(SelectSeq(session, IsSystem)) < MaxSystem
    /\ session' = Append(session, ConversationMessage(role, Len(session) + 1, PlainText(contentLen)))
    /\ mRes' = NoRes
    /\ UNCHANGED <<stm, contentLen, recompacted>>
    /\ UNCHANGED notShortVars

\* ShortTermMemory.apply_strategy(session.messages, auto_compact)
ApplyStrategy(auto_compact) ==
    LET r == apply_strategy(stm, session, auto_compact)
    IN /\ stm' = [stm EXCEPT !.summary_message = r.summary_message]
       /\ recompacted' = (recompacted \/ (stm.summary_message # NoMessage
                                           /\ r.summary_message # stm.summary_message))
       /\ mRes' = [op |-> "apply_strategy", auto_compact |-> auto_compact,
                   messages |-> session, had_summary |-> stm.summary_message # NoMessage,
                   triggered |-> r.triggered, compacted |-> r.compacted, ret |-> r.ret]
       /\ UNCHANGED <<session, contentLen>>
       /\ UNCHANGED notShortVars

NextShort ==
    \/ \E role \in {"system", "user"} : AddMessage(role)
    \/ \E auto_compact \in BOOLEAN : ApplyStrategy(auto_compact)

\* ------------------------------------------------------------------------
\* weave.core.memory: LongTermMemory
\* ------------------------------------------------------------------------
MemAgents == 1..2                 \* the agents that keep long-term memory
NoteContents == 1..MaxNotes       \* Memory.content

\* A text is the sequence of its lines.
Line(kind, content) == [line |-> kind, content |-> content]

\* A file of memory_dir: absent, or there with its text.
NoMemoryFile == [exists |-> FALSE, text |-> <<>>]
MemoryFile(text) == [exists |-> TRUE, text |-> text]

\* Memory.to_markdown(): the line of the timestamp and the importance, an
\* empty line, the content (no tags, no metadata).
to_markdown(content) == <<Line("stamp", 0), Line("", 0), Line("content", content)>>

\* f"# Long-Term Memory: {agent_name}\n\n"
FileHeading(agent_name) == <<Line("heading", agent_name), Line("", 0)>>

\* "\n\n---\n\n"
NoteSeparator == <<Line("", 0), Line("---", 0), Line("", 0)>>

save_memory_overwrites(dir, agent_name, content) ==
    [dir EXCEPT ![agent_name] = MemoryFile(FileHeading(agent_name) \o to_markdown(content))]

\* The directory after save_memory(agent_name, memory).
save_memory(dir, agent_name, content) ==
    LET mode == IF dir[agent_name].exists THEN "a" ELSE "w"
    IN [dir EXCEPT ![agent_name] =
           IF mode = "a"
           THEN MemoryFile(dir[agent_name].text \o NoteSeparator \o to_markdown(content))
           ELSE MemoryFile(FileHeading(agent_name) \o to_markdown(content))]

\* What load_memories returns: None, or the text of the file.
load_memories(dir, agent_name) ==
    IF ~dir[agent_name].exists THEN [none |-> TRUE, text |-> <<>>]
    ELSE [none |-> FALSE, text |-> dir[agent_name].text]

\* What clear_memories returns, and the directory after it.
clear_memories(dir, agent_name) ==
    IF dir[agent_name].exists
    THEN [ret |-> TRUE, dir |-> [dir EXCEPT ![agent_name] = NoMemoryFile]]
    ELSE [ret |-> FALSE, dir |-> dir]

InitLong ==
    /\ memoryDir = [a \in MemAgents |-> NoMemoryFile]
    /\ history = [a \in MemAgents |-> <<>>]
    /\ cleared = {}
    /\ ltRes = NoRes

SaveMemory(agent_name, content) ==
    /\ Len(history[agent_name]) < MaxHistory
    /\ memoryDir' = save_memory(memoryDir, agent_name, content)
    /\ history' = [history EXCEPT ![agent_name] = Append(@, content)]
    /\ ltRes' = [op |-> "save_memory", agent |-> agent_name]
    /\ UNCHANGED cleared
    /\ UNCHANGED notLongVars

LoadMemories(agent_name) ==
    /\ ltRes' = [op |-> "load_memories", agent |-> agent_name,
                 ret |-> load_memories(memoryDir, agent_name)]
    /\ UNCHANGED <<memoryDir, history, cleared>>
    /\ UNCHANGED notLongVars

ClearMemories(agent_name) ==
    /\ memoryDir' = clear_memories(memoryDir, agent_name).dir
    /\ history' = [history EXCEPT ![agent_name] = <<>>]
    /\ cleared' = cleared \cup {agent_name}
    /\ ltRes' = [op |-> "clear_memories", agent |-> agent_name,
                 ret |-> clear_memories(memoryDir, agent_name).ret,
                 had_history |-> history[agent_name] # <<>>]
    /\ UNCHANGED notLongVars

NextLong ==
    \/ \E a \in MemAgents : \E c \in NoteContents : SaveMemory(a, c)
    \/ \E a \in MemAgents : LoadMemories(a)
    \/ \E a \in MemAgents : ClearMemories(a)

\* ------------------------------------------------------------------------
\* Specifications
\* ------------------------------------------------------------------------
InitMemoryIdle == InitShortIdle /\ InitLong

InitSpecGraph == InitGraph /\ InitLock /\ InitEngineIdle /\ InitState /\ InitMemoryIdle

SpecGraph == InitSpecGraph /\ [][NextGraph]_vars

InitSpecLock == InitLock /\ InitGraphIdle /\ InitEngineIdle /\ InitState /\ InitMemoryIdle

InitSpecState == InitState /\ InitLock /\ InitGraphIdle /\ InitEngineIdle /\ InitMemoryIdle

SpecState == InitSpecState /\ [][NextState]_vars

SpecLock == InitSpecLock /\ [][NextLock]_vars

\* The settings execute_flow runs under: the defaults of RuntimeConfig
\* (retry_delay 1.0, stop_on_error True), agents without a storage section,
\* no lock file and one execute_flow call on the Executor, and each single
\* departure from them; a storage that cannot be written goes with agents
\* that save their outputs.
DefaultScenario == [retry_delay |-> 1, stop_on_error |-> TRUE, save_outputs |-> FALSE,
                    storage_fails |-> FALSE, locked |-> FALSE, calls |-> 1]

Scenarios ==
    { DefaultScenario,
      [DefaultScenario EXCEPT !.retry_delay = MaxRetryDelay],
      [DefaultScenario EXCEPT !.stop_on_error = FALSE],
      [DefaultScenario EXCEPT !.save_outputs = TRUE],
      [DefaultScenario EXCEPT !.save_outputs = TRUE, !.storage_fails = TRUE],
      [DefaultScenario EXCEPT !.locked = TRUE],
      [DefaultScenario EXCEPT !.calls = 2] }

\* The Executor runs in process EngineProc; the lock file is absent, or holds
\* the lock of another live process.  Two calls on one Executor, and a
\* storage that cannot be written, are run without retries.
InitSpec ==
    /\ InitEngine
    /\ InitGraphIdle
    /\ lockFile \in {NoFile, LockFile(MaxRunIds, 2)}
    /\ [retry_delay |-> cfgRetryDelay, stop_on_error |-> cfgStopOnError,
        save_outputs |-> cfgSaveOutputs, storage_fails |-> cfgStorageFails,
        locked |-> lockFile # NoFile,
        calls |-> callsPlanned] \in Scenarios
    /\ (callsPlanned > 1 \/ cfgStorageFails) => cfgMaxRetries = 0
    /\ alive = Procs
    /\ lpc = [p \in Procs |-> "idle"]
    /\ lrun = [p \in Procs |-> 0]
    /\ holder = IF lockFile = NoFile THEN NoHolder ELSE lockFile
    /\ lRes = NoRes
    /\ InitState
    /\ InitMemoryIdle

Spec == InitSpec /\ [][NextEngine]_vars

InitSpecShort == InitShort /\ InitLong /\ InitGraphIdle /\ InitLock /\ InitEngineIdle /\ InitState

SpecShort == InitSpecShort /\ [][NextShort]_vars

InitSpecLong == InitLong /\ InitShortIdle /\ InitGraphIdle /\ InitLock /\ InitEngineIdle /\ InitState

SpecLong == InitSpecLong /\ [][NextLong]_vars

\* ------------------------------------------------------------------------
\* Properties of execute_flow (specification Spec)
\* ------------------------------------------------------------------------
RealRun == ~dryRun /\ pc # "idle"

\* The lock record of this run: create_lock(weave_name, run_id) by the
\* Executor's process.
OwnLock == LockFile(EngineRunId, EngineProc)

ForeignLiveLock == lockFile.kind = "lock" /\ lockFile # OwnLock /\ OwnerOf(lockFile) \in alive

AgentExecuted == pc = "runner" \/ fin.agent # None

CurrentAgent == order[idx]

\* C1: a real run holds the run lock before it creates its state record or
\* executes an agent; when the lock of a live process is in place, it raises
\* without creating a state record and without executing an agent.
C1_LockAcquiredFirst ==
    /\ (RealRun /\ (AgentExecuted \/ stateFile[EngineRunId] # NoState)) => lockFile = OwnLock
    /\ (RealRun /\ ForeignLiveLock) =>
          (pc = "raised" /\ ~AgentExecuted /\ stateFile[EngineRunId] = NoState)

\* C2: a real run holds its lock as long as it is running, and once it has
\* returned or raised its lock is gone.
C2_LockHeldThenReleased ==
    /\ (RealRun /\ pc \in {"attempt", "runner", "finish"}) => lockFile = OwnLock
    /\ (RealRun /\ pc \in {"done", "raised"}) => lockFile # OwnLock

\* The payload agent u left: the data of the output the loop finished u with.
Payload(u) == [kind |-> IF final[u] = "failed" THEN "error" ELSE "content", of |-> u]

\* C7: in a real run, when the runner is called for an agent with a declared
\* input, the output of the upstream agent is in the output map, and the
\* context of the call holds the upstream agent's payload, whatever key the
\* upstream agent stores its output under.
C7_UpstreamOutputInContext ==
    (~dryRun /\ pc = "runner" /\ cfgInputs[CurrentAgent] # None) =>
        LET u == cfgInputs[CurrentAgent]
        IN /\ final[u] # "none"
           /\ \E k \in DOMAIN outputs :
                 outputs[k].status # "none" /\ outputs[k].agent_name = u
           /\ ctx.key = u
           /\ ctx.data = Payload(u)

\* C8: an agent that exhausts its retries is counted as failed once, its
\* error output with status failed is stored under its output key, the
\* agents after it in the order all execute, and an agent whose input is the
\* failed agent is called with the error payload as its input.
C8_FailureForwarded ==
    LET failedAgents == {a \in 1..cfgN : final[a] = "failed"}
    IN /\ (~dryRun /\ pc \in {"attempt", "runner", "finish", "done"}) =>
             failed = Cardinality(failedAgents)
       /\ (~dryRun /\ pc \in {"finish", "done"}) => \A a \in 1..cfgN : final[a] # "none"
       /\ (~dryRun /\ pc \in {"attempt", "finish"} /\ attempt = 0 /\ fin.agent # None
             /\ fin.output.status = "failed") =>
             /\ fin.output = AgentOutput(fin.agent, OutputKey(fin.agent), "error", "failed")
             /\ outputs[OutputKey(fin.agent)] = fin.output
       /\ (~dryRun /\ pc = "runner" /\ cfgInputs[CurrentAgent] \in failedAgents) =>
             (ctx.key = cfgInputs[CurrentAgent]
                /\ ctx.data = [kind |-> "error", of |-> cfgInputs[CurrentAgent]])

\* k failures of the runner, then nothing more
Raises(k) == [i \in 1..k |-> "raise"]

C10_BackoffDelay ==
    \A i \in 1..Len(slept) : slept[i] = cfgRetryDelay * (2 ^ (i - 1))

\* The agent the entries of hookLog are about, and whether the loop is done
\* with it.
Finished == fin.agent # None /\ (pc \in {"finish", "done"} \/ (pc = "attempt" /\ attempt = 0))

InProgress == pc = "runner" \/ (pc = "attempt" /\ attempt > 0)

SuccessCount == Cardinality({a \in 1..cfgN : final[a] = "success"})

FailureCount == Cardinality({a \in 1..cfgN : final[a] = "failed"})

HookCalled(phase, h, a) ==
    \E i \in 1..Len(hookLog) : hookLog[i] = [phase |-> phase, hook |-> h, agent |-> a]

\* C11: a dry run never changes the lock file, the state file or the output
\* storage and never calls the Agent Runner (on whose path alone the memory
\* manager is set up and used); every agent gets the canned success output,
\* so at the end successful is the number of agents and failed is 0.
C11_DryRunFrame ==
    /\ [][(dryRun' /\ pc' # "idle") =>
             /\ lockFile' = lockFile /\ stateFile' = stateFile /\ stored' = stored
             /\ runnerLog' = <<>> /\ pc' # "runner"]_vars
    /\ []((dryRun /\ pc # "idle") =>
             /\ failed = 0 /\ successful = SuccessCount
             /\ fin.agent # None =>
                   fin.output = AgentOutput(fin.agent, OutputKey(fin.agent), "dry-run", "success")
             /\ pc \in {"finish", "done"} => (successful = Len(order) /\ Len(order) = cfgN)
             /\ pc = "done" => (eRes.successful = eRes.total_agents /\ eRes.failed = 0))

\* A dry run of three agents configured to save their outputs returned.
C11_Witness ==
    /\ dryRun /\ pc = "done" /\ cfgSaveOutputs
    /\ eRes.total_agents = 3 /\ eRes.successful = 3

\* C12: whatever hooks raise, execute_flow does not raise because of a hook,
\* every registered hook is invoked before the agent's runner is called and
\* (for an agent that succeeded) after it, the status of an agent is that of
\* its last runner call, and the counters count the agents by that status.
C12_HookErrorsContained ==
    /\ pc = "raised" => eRes.raised \in {"AttributeError", "NetworkXUnfeasible"}
    /\ pc = "runner" => \A h \in 1..Len(hooks) : HookCalled("before", h, CurrentAgent)
    /\ Finished =>
          /\ \A h \in 1..Len(hooks) : HookCalled("before", h, fin.agent)
          /\ fin.output.status = "success" =>
                \A h \in 1..Len(hooks) : HookCalled("after", h, fin.agent)
          /\ ~dryRun => (fin.output.status = "success" <=> fin.calls[Len(fin.calls)] = "ok")
          /\ dryRun => fin.output.status = "success"
    /\ pc \in {"attempt", "runner", "finish", "done"} =>
          (successful = SuccessCount + Cardinality(saveRaised) /\ failed = FailureCount)

\* An agent succeeded in a real run with a raising hook registered before
\* another hook.
C12_Witness ==
    /\ ~dryRun /\ Finished /\ hooks = <<"raises", "ok">>
    /\ fin.output.status = "success"
    /\ HookCalled("after", 2, fin.agent)

\* The hooks invoked for an agent are, attempt after attempt, the
\* before_agent of every hook in registration order and, after the success,
\* the after_agent of every hook in registration order; the calls are made
\* while the loop is at that agent, after every agent earlier in the order is
\* finished and before any later one is begun.
HookCallsInOrder ==
    (Len(hooks) > 0 /\ (Finished \/ InProgress)) =>
        LET a == IF InProgress THEN CurrentAgent ELSE fin.agent
            H == Len(hooks)
            afters == IF ~InProgress /\ fin.output.status = "success" THEN H ELSE 0
        IN /\ Len(hookLog) % H = 0
           /\ \A i \in 1..Len(hookLog) :
                 /\ hookLog[i].agent = a
                 /\ hookLog[i].hook = ((i - 1) % H) + 1
                 /\ hookLog[i].phase = IF i > Len(hookLog) - afters THEN "after" ELSE "before"
           /\ \A j \in 1..Len(order) :
                 /\ j < IndexOf(order, a) => final[order[j]] # "none"
                 /\ j > IndexOf(order, a) => final[order[j]] = "none"

\* C13: a registration appends to the hooks and keeps the ones registered
\* before where they were; the hook calls made for an agent go through the
\* hooks in that order, round after round, while the loop is at that agent.
C13_HooksInRegistrationOrder ==
    /\ [][Len(hooks') >= Len(hooks) /\ SubSeq(hooks', 1, Len(hooks)) = hooks]_vars
    /\ []HookCallsInOrder

\* An agent succeeded on its second attempt with two hooks registered.
C13_Witness ==
    /\ ~dryRun /\ Finished /\ Len(hooks) = 2
    /\ fin.calls = <<"raise", "ok">>
    /\ Len(hookLog) = 6

\* C14: once the loop is done with an agent, succeeded or failed, the
\* after_agent of every registered hook has been invoked for it.
C14_AfterHooksOnFailure ==
    Finished => \A h \in 1..Len(hooks) : HookCalled("after", h, fin.agent)

\* C15: in a real run the state file holds the record of the run, and in it
\* the final status of every agent the loop is done with.
C15_StateFollowsAgents ==
    (RealRun /\ pc \in {"attempt", "runner", "finish", "done"}) =>
        /\ stateFile[EngineRunId] # NoState
        /\ \A a \in 1..cfgN :
              final[a] # "none" => stateFile[EngineRunId].agents[a] = final[a]

\* C16: when a real run has returned, the status of its record is completed
\* if no agent failed and failed otherwise, and the counts of the summary are
\* the numbers of agents finished as success and as failed.
C16_OverallStatus ==
    (RealRun /\ pc = "done") =>
        /\ stateFile[EngineRunId] # NoState
        /\ stateFile[EngineRunId].status = IF FailureCount = 0 THEN "completed" ELSE "failed"
        /\ eRes.successful = SuccessCount
        /\ eRes.failed = FailureCount

\* C17: with stop_on_error set no agent is executed after an agent that
\* failed; without it every agent of the order is executed.
C17_StopOnError ==
    /\ (~dryRun /\ cfgStopOnError) =>
          \A i, j \in 1..Len(order) :
              (i < j /\ final[order[i]] = "failed") =>
                  (final[order[j]] = "none" /\ ~(pc = "runner" /\ idx = j))
    /\ (~dryRun /\ ~cfgStopOnError /\ pc \in {"finish", "done"}) =>
          \A a \in 1..cfgN : final[a] # "none"

\* C18: after a real run in which an agent failed, the status of the run's
\* record is failed, and every agent that succeeded still has its success
\* output in the output map and the status success in the record.
C18_PartialSuccessKept ==
    (RealRun /\ pc = "done" /\ FailureCount > 0) =>
        /\ stateFile[EngineRunId] # NoState
        /\ stateFile[EngineRunId].status = "failed"
        /\ \A a \in 1..cfgN :
              final[a] = "success" =>
                  /\ eRes.outputs[OutputKey(a)] = AgentOutput(a, OutputKey(a), "content", "success")
                  /\ stateFile[EngineRunId].agents[a] = "success"

\* C28: every invocation of execute_flow uses a run id that no earlier
\* invocation of it used, a second call on the same Executor included.
C28_FreshRunIdPerInvocation ==
    \A i, j \in 1..Len(runLog) : i # j => runLog[i] # runLog[j]

\* C31: in a real run the record of the run is RUNNING while the loop is at
\* work and COMPLETED or FAILED once the summary is returned; the agent the
\* runner is called for is RUNNING in it, every agent before it in the order
\* is SUCCESS or FAILED and every agent after it is PENDING.
C31_StatusMachine ==
    /\ (RealRun /\ pc \in {"attempt", "runner", "finish"}) =>
          /\ stateFile[EngineRunId] # NoState
          /\ stateFile[EngineRunId].status = "running"
    /\ (RealRun /\ pc = "runner") =>
          /\ stateFile[EngineRunId] # NoState
          /\ \A j \in 1..Len(order) :
                stateFile[EngineRunId].agents[order[j]]
                   \in (IF j < idx THEN {"success", "failed"}
                        ELSE IF j = idx THEN {"running"} ELSE {"pending"})
    /\ (RealRun /\ pc = "done") =>
          /\ stateFile[EngineRunId] # NoState
          /\ stateFile[EngineRunId].status \in {"completed", "failed"}

\* C33: in the summary execute_flow returns, successful + failed is
\* total_agents.
C33_CountsAddUp ==
    pc = "done" => eRes.successful + eRes.failed = eRes.total_agents

\* How many times hook h's method of the phase is in the log for agent a.
HookCalls(phase, h, a) ==
    Cardinality({i \in 1..Len(hookLog) : hookLog[i] = [phase |-> phase, hook |-> h, agent |-> a]})

\* C36: once the loop is done with an agent, the before_agent of every
\* registered hook has been invoked exactly once for it, whatever the number
\* of attempts.
C36_BeforeHookOncePerAgent ==
    Finished => \A h \in 1..Len(hooks) : HookCalls("before", h, fin.agent) = 1

\* C37: the output map of the summary holds, for every agent of the order,
\* an entry that agent produced.
C37_OutputOfEveryAgent ==
    pc = "done" =>
        \A a \in 1..cfgN :
            /\ eRes.outputs[OutputKey(a)].status # "none"
            /\ eRes.outputs[OutputKey(a)].agent_name = a

\* C39: a call of execute_flow does not end by raising; while it runs the
\* runner has been called at most max_retries + 1 times for the agent the
\* loop is at, the agents before it in the order are done with and those
\* after it untouched; the summary it returns counts every agent of the
\* weave.
C39_ReturnsSummary ==
    /\ pc # "raised"
    /\ pc \in {"attempt", "runner"} =>
          /\ Len(runnerLog) <= cfgMaxRetries + 1
          /\ \A j \in 1..Len(order) : (final[order[j]] # "none") <=> (j < idx)
    /\ pc = "done" =>
          /\ eRes.total_agents = cfgN
          /\ \A a \in 1..cfgN : final[a] # "none"

\* ------------------------------------------------------------------------
\* Properties of the state file (specification SpecState)
\* ------------------------------------------------------------------------
\* C21: save_state does not fail; when save_state(s) has returned,
\* load_state(s.run_id) returns s; on every content of the state file
\* save_state leaves the entry of every other run id as it was; load_state
\* of a run id no save_state has returned for returns None.
C21_SaveLoadRoundTrip ==
    /\ sRes.op = "save_state" => sRes.raised = "none"
    /\ (sRes.op = "save_state" /\ sRes.step = "return") =>
          load_state(stateFile, sRes.state.run_id) = [raised |-> "none", ret |-> sRes.state]
    /\ \A run \in 1..MaxRunIds : \A s \in ExecutionStates(run) :
          LET w == save_state(stateFile, s)
          IN w.raised = "none" =>
                \A other \in (1..MaxRunIds) \ {run} : w.file[other] = stateFile[other]
    /\ (sRes.op = "load_state" /\ ~sRes.everSaved) =>
          (sRes.raised = "none" /\ sRes.ret = NoState)

\* C30: the read-modify-write cycles of two save_state calls never
\* interleave, and when no save_state is under way the file holds a record
\* for every run a save_state has returned for.
C30_NoLostRecord ==
    /\ \A p, q \in Savers : (p # q /\ spc[p] # "idle") => spc[q] = "idle"
    /\ (\A p \in Savers : spc[p] = "idle") => \A run \in saved : stateFile[run] # NoState

\* ------------------------------------------------------------------------
\* Properties of ShortTermMemory (specification SpecShort)
\* ------------------------------------------------------------------------
Applied == mRes.op = "apply_strategy"

\* The last k elements of seq, none when k <= 0.
LastK(seq, k) ==
    IF k <= 0 THEN <<>>
    ELSE IF k >= Len(seq) THEN seq
    ELSE SubSeq(seq, Len(seq) - k + 1, Len(seq))

SystemOf(messages) == SelectSeq(messages, IsSystem)
ConversationOf(messages) == SelectSeq(messages, NotSystem)

\* Every message of the session has contentLen characters.
TokenEstimate(messages) == Len(messages) * (contentLen \div 4)

\* C22: with strategy sliding_window and no compaction, apply_strategy
\* returns the last min(len(messages), max_messages) messages of its input,
\* in their order, whatever their roles.
C22_SlidingWindowKeepsLast ==
    (Applied /\ stm.strategy = "sliding_window" /\ ~mRes.triggered) =>
        mRes.ret = LastK(mRes.messages,
                         IF Len(mRes.messages) < stm.max_messages THEN Len(mRes.messages)
                         ELSE stm.max_messages)

\* C23: with strategy buffer or an unknown strategy and no compaction,
\* apply_strategy returns its input when that has at most max_messages
\* messages, and otherwise the system messages followed by the most recent
\* max_messages - #system other messages: never more than max_messages.
C23_BufferKeepsSystemAndRecent ==
    (Applied /\ stm.strategy \in {"buffer", "summary"} /\ ~mRes.triggered) =>
        IF Len(mRes.messages) <= stm.max_messages THEN mRes.ret = mRes.messages
        ELSE /\ mRes.ret = SystemOf(mRes.messages)
                              \o LastK(ConversationOf(mRes.messages),
                                       stm.max_messages - Len(SystemOf(mRes.messages)))
             /\ Len(mRes.ret) <= stm.max_messages

IsSummary(msg) == msg.text.kind = "summary"

\* C25: a compaction of a list with more than 10 non-system messages gives
\* the system messages, then one summary system message, then the last 10
\* non-system messages as they were; with 10 or fewer non-system messages it
\* gives the list back and makes no summary; an instance that has a summary
\* does not compact, so it makes at most one.
C25_CompactionKeepsLastTen ==
    /\ (Applied /\ mRes.triggered) =>
          IF Len(ConversationOf(mRes.messages)) > 10
          THEN /\ mRes.compacted = SystemOf(mRes.messages) \o <<stm.summary_message>>
                                      \o LastK(ConversationOf(mRes.messages), 10)
               /\ stm.summary_message.role = "system"
               /\ Len(SelectSeq(mRes.compacted, IsSummary)) = 1
               /\ Len(mRes.compacted) <= Len(SystemOf(mRes.messages)) + 1 + 10
          ELSE /\ mRes.compacted = mRes.messages
               /\ stm.summary_message = NoMessage
    /\ (Applied /\ mRes.had_summary) => ~mRes.triggered
    /\ ~recompacted

C25_Witness ==
    /\ Applied /\ mRes.triggered
    /\ Len(ConversationOf(mRes.messages)) > 10
    /\ Len(SystemOf(mRes.messages)) > 0

\* C38: two apply_strategy calls in a row on the same instance, with the
\* same messages and the same auto_compact, return the same list.
C38_SameCallSameResult ==
    [][(mRes.op = "apply_strategy" /\ mRes'.op = "apply_strategy"
          /\ mRes'.messages = mRes.messages /\ mRes'.auto_compact = mRes.auto_compact)
       => mRes'.ret = mRes.ret]_vars

\* ------------------------------------------------------------------------
\* Properties of LongTermMemory (specification SpecLong)
\* ------------------------------------------------------------------------
IsContentLine(l) == l.line = "content"

\* The note contents a text holds, in the order they stand in it.
NotesIn(text) ==
    LET ls == SelectSeq(text, IsContentLine)
    IN [i \in 1..Len(ls) |-> ls[i].content]

\* C26: load_memories of an agent returns a text that holds every note saved
\* for it since its last clear, in the order saved, or None when there is
\* none; clear_memories returns True exactly when there was a history; a
\* save or a clear for one agent leaves the file of every other agent as it
\* was.
C26_LongTermHistory ==
    /\ ltRes.op = "load_memories" =>
          IF history[ltRes.agent] = <<>> THEN ltRes.ret.none
          ELSE ~ltRes.ret.none /\ NotesIn(ltRes.ret.text) = history[ltRes.agent]
    /\ ltRes.op = "clear_memories" => ltRes.ret = ltRes.had_history
    /\ \A a \in MemAgents : \A b \in MemAgents \ {a} :
          /\ clear_memories(memoryDir, a).dir[b] = memoryDir[b]
          /\ \A c \in NoteContents : save_memory(memoryDir, a, c)[b] = memoryDir[b]

C26_Witness ==
    /\ ltRes.op = "load_memories"
    /\ ltRes.agent \in cleared
    /\ Len(history[ltRes.agent]) >= 2
    /\ \E b \in MemAgents : history[b] # <<>> /\ history[b] # history[ltRes.agent]

\* ------------------------------------------------------------------------
\* Properties of the lock file (specification SpecLock)
\* ------------------------------------------------------------------------
\* C3: once a create_lock has returned, and until release_lock is called,
\* every create_lock call made while the owner of that lock is alive raises
\* and leaves the lock file as it was.
C3_SecondCreateLockRaises ==
    (lRes.op = "create_lock" /\ lRes.step = "check" /\ lRes.holderAlive) =>
        /\ lRes.raised = "RuntimeError"
        /\ lRes.after = lRes.before

\* C4: when the lock file holds a record whose owner is dead, is_locked()
\* returns False and removes the file, and a create_lock call made then is
\* not refused.
C4_StaleLockIsCleared ==
    /\ (lRes.op = "is_locked" /\ lRes.before.kind = "lock" /\ ~lRes.ownerAlive) =>
          (lRes.ret = FALSE /\ lRes.after = NoFile)
    /\ (lRes.op = "create_lock" /\ lRes.step = "check"
          /\ lRes.before.kind = "lock" /\ ~lRes.ownerAlive) =>
          (lRes.raised = "none" /\ lRes.after = NoFile)

\* C29: when a create_lock call of a live process returns, no other live
\* process holds a lock it was given by a create_lock call that returned
\* earlier and that nobody released since: two live processes never both
\* hold the lock.
C29_AtMostOneHolder ==
    [][\A p \in Procs :
          (lpc[p] = "dump" /\ lpc'[p] = "idle" /\ alive' = alive) =>
              ~(holder.kind = "lock" /\ OwnerOf(holder) \in alive /\ OwnerOf(holder) # p)]_vars

\* C34: an is_locked() call, alone or as the test of create_lock, that finds
\* the record of a live owner in the lock file reports the lock and leaves
\* the file as it is, also when the owner runs as another user or on another
\* host; create_lock then raises.
C34_LiveOwnerLockKept ==
    /\ (lRes.op = "is_locked" /\ lRes.ownerAlive) =>
          (lRes.ret = TRUE /\ lRes.after = lRes.before)
    /\ (lRes.op = "create_lock" /\ lRes.step = "check" /\ lRes.ownerAlive) =>
          (lRes.raised = "RuntimeError" /\ lRes.after = lRes.before)

\* C35: on a lock file that exists and holds no readable record, is_locked()
\* returns True and leaves the file, so the test of every create_lock call
\* made then raises RuntimeError; after release_lock() the file is gone and
\* is_locked() returns False.
C35_UnreadableLockStays ==
    /\ (lRes.op = "is_locked" /\ lRes.before = Garbage) =>
          (lRes.ret = TRUE /\ lRes.after = Garbage)
    /\ (lRes.op = "create_lock" /\ lRes.step = "check" /\ lRes.before = Garbage) =>
          (lRes.raised = "RuntimeError" /\ lRes.after = Garbage)
    /\ lockFile = Garbage =>
          \A p \in alive :
             /\ is_locked(p, lockFile, alive) = [ret |-> TRUE, file |-> Garbage]
             /\ release_lock(lockFile) = [ret |-> TRUE, file |-> NoFile]
             /\ is_locked(p, release_lock(lockFile).file, alive).ret = FALSE

\* A create_lock call was refused on the file a writer left half written when
\* it was killed.
C35_Witness ==
    /\ lRes.op = "create_lock" /\ lRes.step = "check"
    /\ lRes.before = Garbage /\ lRes.raised = "RuntimeError"
    /\ \A p \in Procs : lpc[p] = "idle"
    /\ alive # Procs

\* C20: release_lock() removes the lock file and returns True when the file
\* exists, returns False and changes nothing when it does not; a second call
\* right after the first returns False and leaves what the first left.
C20_ReleaseLockIdempotent ==
    /\ lRes.op = "release_lock" =>
          /\ lRes.ret = (lRes.before # NoFile)
          /\ lRes.after = NoFile
          /\ lockFile = NoFile
    /\ LET once == release_lock(lockFile)
           twice == release_lock(once.file)
       IN twice.ret = FALSE /\ twice.file = once.file

\* release_lock() removed the record a create_lock had written.
C20_Witness ==
    /\ lRes.op = "release_lock" /\ lRes.ret = TRUE
    /\ lRes.before.kind = "lock" /\ lockFile = NoFile

\* ------------------------------------------------------------------------
\* Properties of DependencyGraph (specification SpecGraph)
\* ------------------------------------------------------------------------
RECURSIVE ReachIn(_, _, _)
\* The nodes reached from the set S by 1..k edges of G.
ReachIn(G, S, k) ==
    IF k = 0 THEN {}
    ELSE LET next == {v \in Range(G.nodes) : \E u \in S : <<u, v>> \in Edges(G)}
         IN next \cup ReachIn(G, next, k - 1)

OnCycle(G, v) == v \in ReachIn(G, {v}, Len(G.nodes))

HasCycle(G) == \E v \in Range(G.nodes) : OnCycle(G, v)

\* The weave was built without error: every declared input is in the weave.
BuiltOk == graph.nodes # <<>> /\ \A a \in 1..gN : gInputs[a] <= gN

\* C19: build() raises GraphError when the weave name is not in the config
\* or an agent declares an input outside the weave, and only then; otherwise
\* the nodes of the graph are the agents of the weave and its edges are the
\* pairs input -> agent of the agents with a declared input, each once.
C19_BuildChecksInputs ==
    gRes.op = "build" =>
        /\ gRes.raised = "GraphError" <=> (~gKnown \/ \E a \in 1..gN : gInputs[a] > gN)
        /\ gRes.raised \in {"GraphError", "none"}
        /\ gRes.raised = "none" =>
              /\ Len(graph.nodes) = gN /\ Range(graph.nodes) = 1..gN
              /\ Edges(graph) = {<<gInputs[a], a>> : a \in {b \in 1..gN : gInputs[b] # None}}
              /\ \A u \in 1..gN : Cardinality(Range(graph.succ[u])) = Len(graph.succ[u])

\* build() returned for three agents, two of which declare the third as input.
C19_Witness ==
    /\ gRes.op = "build" /\ gRes.raised = "none"
    /\ gN = 3 /\ gInputs = <<3, 3, 0>>
    /\ Len(graph.succ[3]) = 2

\* C5: for a weave whose declared inputs are acyclic, the execution order of
\* the built graph holds every agent of the weave exactly once, and every
\* agent with a declared input comes after that input.
C5_OrderIsTopological ==
    (gRes.op = "order" /\ BuiltOk /\ ~HasCycle(graph)) =>
        /\ gRes.raised = "none"
        /\ Len(gRes.order) = gN
        /\ Range(gRes.order) = 1..gN
        /\ \A a \in 1..gN :
              gInputs[a] # None => IndexOf(gRes.order, gInputs[a]) < IndexOf(gRes.order, a)

\* An order was returned for three agents of which the first declared
\* depends on the second.
C5_Witness ==
    /\ gRes.op = "order" /\ BuiltOk /\ ~HasCycle(graph)
    /\ gN = 3 /\ gInputs[1] = 2 /\ gInputs[3] = 1
    /\ gRes.raised = "none"

\* The agents that may run once the agents of the set done have: not in
\* done, and without an input or with their input in done.
ReadyAfter(done) ==
    {a \in (1..gN) \ done : gInputs[a] = None \/ gInputs[a] \in done}

\* C27: at every position of the execution order stands the agent declared
\* earliest among those that have no input left to execute at that point.
C27_EarliestDeclaredReadyFirst ==
    (gRes.op = "order" /\ gRes.raised = "none" /\ BuiltOk /\ ~HasCycle(graph)) =>
        \A i \in 1..Len(gRes.order) :
            LET ready == ReadyAfter({gRes.order[j] : j \in 1..(i - 1)})
            IN /\ gRes.order[i] \in ready
               /\ \A b \in ready : gRes.order[i] <= b

\* C6: validate() raises GraphError on a graph with a cycle (a self-input
\* included) and the path it reports holds only nodes that lie on a cycle; it
\* raises GraphError on a graph without nodes; it raises nothing on a
\* non-empty acyclic graph.
C6_ValidateCycles ==
    gRes.op = "validate" =>
        /\ HasCycle(graph) =>
              /\ gRes.raised = "GraphError" /\ gRes.why = "cycle"
              /\ gRes.cycle # <<>>
              /\ \A v \in Range(gRes.cycle) : OnCycle(graph, v)
        /\ Len(graph.nodes) = 0 => gRes.raised = "GraphError"
        /\ (Len(graph.nodes) > 0 /\ ~HasCycle(graph)) => gRes.raised = "none"

\* validate() reported a cycle on a graph that also has a node off the cycle.
C6_Witness ==
    /\ gRes.op = "validate" /\ gRes.raised = "GraphError" /\ gRes.why = "cycle"
    /\ Len(gRes.cycle) = 2
    /\ \E v \in Range(graph.nodes) : ~OnCycle(graph, v)

\* C32: get_execution_order on a built graph that has a cycle (validate was
\* not called) raises GraphError, and returns no order.
C32_CyclicOrderRaisesGraphError ==
    (gRes.op = "order" /\ BuiltOk /\ HasCycle(graph)) =>
        /\ gRes.raised = "GraphError"
        /\ gRes.order = <<>>

=============================================================================
